---- MODULE Spec2Model ----
(***************************************************************************)
(* Virtual marble on a circular track (src/code.py).                       *)
(*                                                                         *)
(* Every number of the program is a Python float (or a small int that the  *)
(* first arithmetic operation turns into one): IEEE 754 binary64, with a   *)
(* significand of 53 bits and round-to-nearest-even after every            *)
(* operation.  A float is modelled as a record [s, m, e] standing for      *)
(* s * m * 2^e, with s in {-1, 0, 1} and m a natural number of exactly 53  *)
(* bits (0 is [s |-> 0, m |-> <<>>, e |-> 0]).  A natural number of any    *)
(* size is a sequence of digits in base 2^13, least significant first,     *)
(* without leading zeros.  There is no signed zero, infinity or NaN and no *)
(* exponent limit: the values met stay far from the exponent range.        *)
(***************************************************************************)
EXTENDS Integers, Sequences, FiniteSets, TLC

\* Number of loop iterations explored.
MaxTicks == 2

(***************************************************************************)
(* Natural numbers of any size.                                            *)
(***************************************************************************)
Abs(n) == IF n < 0 THEN -n ELSE n

Sgn(n) == IF n < 0 THEN -1 ELSE IF n > 0 THEN 1 ELSE 0

RECURSIVE BitLen(_)
BitLen(n) == IF n = 0 THEN 0 ELSE 1 + BitLen(n \div 2)

\* Bits of a digit, and the digit base.
DigitBits == 13

Base == 2^13

Digit(a, i) == IF 1 <= i /\ i <= Len(a) THEN a[i] ELSE 0

\* a without its leading zero digits.
RECURSIVE NTrimLen(_, _)
NTrimLen(a, n) ==
    IF n = 0 THEN 0 ELSE IF a[n] # 0 THEN n ELSE NTrimLen(a, n - 1)

NTrim(a) == SubSeq(a, 1, NTrimLen(a, Len(a)))

\* The sequence of the values f[1] .. f[n].
Digits(f, n) == SubSeq(f, 1, n)

\* The number sum d[i] * Base^(i-1) + c * Base^(from-1) over i >= from, as
\* digits from position `from` on; each d[i] + carry is a TLC integer.
RECURSIVE Carry(_, _, _)
Carry(d, from, c) ==
    IF from > Len(d)
    THEN IF c = 0 THEN <<>> ELSE <<c % Base>> \o Carry(d, from, c \div Base)
    ELSE <<(d[from] + c) % Base>> \o Carry(d, from + 1, (d[from] + c) \div Base)

NFromInt(n) == Carry(<<>>, 1, n)

\* The value of a, for a below 2^31.
NToInt(a) == Digit(a, 1) + Digit(a, 2) * Base + Digit(a, 3) * Base * Base

NMax(i, j) == IF i >= j THEN i ELSE j

\* -1, 0, 1 as a is below, equal to, above b.
RECURSIVE NCmpFrom(_, _, _)
NCmpFrom(a, b, i) ==
    IF i = 0 THEN 0
    ELSE IF a[i] # b[i] THEN Sgn(a[i] - b[i])
    ELSE NCmpFrom(a, b, i - 1)

NCmp(a, b) ==
    IF Len(a) # Len(b) THEN Sgn(Len(a) - Len(b)) ELSE NCmpFrom(a, b, Len(a))

NAdd(a, b) ==
    Carry(Digits([i \in 1 .. NMax(Len(a), Len(b)) |-> Digit(a, i) + Digit(b, i)],
                 NMax(Len(a), Len(b))), 1, 0)

\* a - b for a >= b.
NSub(a, b) ==
    NTrim(Carry(Digits([i \in 1 .. Len(a) |-> a[i] - Digit(b, i)], Len(a)), 1, 0))

\* a * d for a small d (d < 2^17).
NMulSmall(a, d) ==
    NTrim(Carry(Digits([i \in 1 .. Len(a) |-> a[i] * d], Len(a)), 1, 0))

\* Column k of the long multiplication: the sum of a[i] * b[k + 1 - i].
RECURSIVE Column(_, _, _, _, _)
Column(a, b, k, i, acc) ==
    IF acc < 0 \/ i > Len(a) \/ i > k THEN acc
    ELSE Column(a, b, k, i + 1, acc + a[i] * b[k + 1 - i])

\* a * b, for at most 31 digits each.
NMul(a, b) ==
    IF a = <<>> \/ b = <<>> THEN <<>>
    ELSE NTrim(Carry(Digits([k \in 1 .. Len(a) + Len(b) - 1 |->
                                Column(a, b, k, NMax(1, k + 1 - Len(b)), 0)],
                            Len(a) + Len(b) - 1), 1, 0))

\* a * 2^n.
NShl(a, n) ==
    LET q == n \div DigitBits
        r == n % DigitBits
    IN  NTrim([i \in 1 .. Len(a) + q + 1 |->
                 ((Digit(a, i - q) * 2^r) % Base)
                 + (Digit(a, i - q - 1) \div 2^(DigitBits - r))])

\* a \div 2^n.
NShr(a, n) ==
    LET q == n \div DigitBits
        r == n % DigitBits
    IN  NTrim([i \in 1 .. NMax(0, Len(a) - q) |->
                 (a[i + q] \div 2^r)
                 + ((Digit(a, i + q + 1) % 2^r) * 2^(DigitBits - r))])

\* The number of bits of a.
NBitLen(a) ==
    IF a = <<>> THEN 0 ELSE DigitBits * (Len(a) - 1) + BitLen(a[Len(a)])

\* Bit n of a (bit 0 is the lowest).
NBit(a, n) == (Digit(a, (n \div DigitBits) + 1) \div 2^(n % DigitBits)) % 2

\* The n lowest bits of a are all 0.
NLowZero(a, n) ==
    /\ \A i \in 1 .. (n \div DigitBits) : Digit(a, i) = 0
    /\ Digit(a, (n \div DigitBits) + 1) % 2^(n % DigitBits) = 0

\* One step of the long division by b: the quotient digit of r \div b and
\* the remainder, for r < b * Base.  The digit is estimated from the
\* leading bits of r and b, from below, and then corrected.
RECURSIVE NDivFix(_, _, _)
NDivFix(r, b, q) ==
    IF NCmp(r, b) < 0 THEN <<q, r>> ELSE NDivFix(NSub(r, b), b, q + 1)

NDivStep(r, b) ==
    IF NCmp(r, b) < 0 THEN <<0, r>>
    ELSE LET s  == NMax(0, NBitLen(b) - 15)
             rt == NToInt(NShr(r, s))
             bt == NToInt(NShr(b, s))
             q0 == IF s = 0 THEN rt \div bt ELSE rt \div (bt + 1)
         IN  NDivFix(NSub(r, NMulSmall(b, q0)), b, q0)

\* <<a \div b, a % b>> for b # 0, taking the digits of a from position i
\* down, with r < b the remainder of the digits above and q their quotient.
RECURSIVE NDivFrom(_, _, _, _, _)
NDivFrom(a, b, i, r, q) ==
    IF i = 0 \/ NCmp(r, b) >= 0 \/ Len(q) # Len(a) - i THEN <<NTrim(q), r>>
    ELSE LET st == NDivStep(NTrim(<<a[i]>> \o r), b)
         IN  NDivFrom(a, b, i - 1, st[2], <<st[1]>> \o q)

NDivMod(a, b) == NDivFrom(a, b, Len(a), <<>>, <<>>)

\* The largest s with s * s <= n, by Newton's iteration from above.
RECURSIVE NSqrtFrom(_, _)
NSqrtFrom(n, s) ==
    LET t == NShr(NAdd(s, NDivMod(n, s)[1]), 1)
    IN  IF NCmp(t, s) >= 0 THEN s ELSE NSqrtFrom(n, t)

NSqrt(n) ==
    IF n = <<>> THEN <<>>
    ELSE NSqrtFrom(n, NShl(<<1>>, (NBitLen(n) + 1) \div 2))

(***************************************************************************)
(* Float arithmetic.                                                       *)
(***************************************************************************)
\* Significand width of a Python float, in bits.
P == 53

Zero == [s |-> 0, m |-> <<>>, e |-> 0]

\* s * n * 2^e, or a little more in magnitude when sticky, rounded to the
\* nearest float, ties to even.
Round(s, n, e, sticky) ==
    IF n = <<>> THEN Zero
    ELSE LET b == NBitLen(n)
         IN  IF b <= P
             THEN [s |-> s, m |-> NShl(n, P - b), e |-> e - (P - b)]
             ELSE LET d  == b - P
                      q  == NShr(n, d)
                      up == /\ NBit(n, d - 1) = 1
                            /\ \/ sticky
                               \/ ~NLowZero(n, d - 1)
                               \/ NBit(n, d) = 1
                      qq == IF up THEN NAdd(q, <<1>>) ELSE q
                  IN  IF NBitLen(qq) > P
                      THEN [s |-> s, m |-> NShr(qq, 1), e |-> e + d + 1]
                      ELSE [s |-> s, m |-> qq, e |-> e + d]

FromInt(n) == Round(Sgn(n), NFromInt(Abs(n)), 0, FALSE)

\* The float s * 2^k.
PowerOfTwo(s, k) == Round(s, <<1>>, k, FALSE)

FNeg(a) == [a EXCEPT !.s = -a.s]

FAbs(a) == [a EXCEPT !.s = Abs(a.s)]

\* -1, 0, 1 as a is below, equal to, above b.
FCmp(a, b) ==
    IF a.s # b.s THEN Sgn(a.s - b.s)
    ELSE IF a.s = 0 THEN 0
    ELSE IF a.e # b.e THEN a.s * Sgn(a.e - b.e)
    ELSE a.s * NCmp(a.m, b.m)

FLt(a, b) == FCmp(a, b) < 0

FLe(a, b) == FCmp(a, b) <= 0

FGt(a, b) == FCmp(a, b) > 0

FGe(a, b) == FCmp(a, b) >= 0

\* a + b.  An operand below an eighth of the other's last place changes
\* nothing; otherwise the exact sum is rounded.
FAdd(a, b) ==
    IF a.s = 0 THEN b
    ELSE IF b.s = 0 THEN a
    ELSE IF a.e - b.e >= P + 3 THEN a
    ELSE IF b.e - a.e >= P + 3 THEN b
    ELSE LET e == IF a.e < b.e THEN a.e ELSE b.e
             x == NShl(a.m, a.e - e)
             y == NShl(b.m, b.e - e)
             c == NCmp(x, y)
         IN  IF a.s = b.s THEN Round(a.s, NAdd(x, y), e, FALSE)
             ELSE IF c = 0 THEN Zero
             ELSE IF c > 0 THEN Round(a.s, NSub(x, y), e, FALSE)
             ELSE Round(b.s, NSub(y, x), e, FALSE)

FSub(a, b) == FAdd(a, FNeg(b))

FMul(a, b) ==
    IF a.s = 0 \/ b.s = 0 THEN Zero
    ELSE Round(a.s * b.s, NMul(a.m, b.m), a.e + b.e, FALSE)

\* The exceptions Python raises in place of a value.
ZeroDivisionError == "ZeroDivisionError"

ValueError == "ValueError"

\* a / b: the quotient with 65 bits or more, sticky when the division
\* leaves a remainder.  Division by zero raises ZeroDivisionError.
FDiv(a, b) ==
    IF b.s = 0 THEN ZeroDivisionError
    ELSE IF a.s = 0 THEN Zero
    ELSE LET qr == NDivMod(NShl(a.m, 65), b.m)
         IN  Round(a.s * b.s, qr[1], a.e - b.e - 65, qr[2] # <<>>)

\* sqrt(a): the root with 59 bits, sticky when it is not exact.  The root of
\* a negative number raises ValueError.
FSqrt(a) ==
    IF a.s < 0 THEN ValueError
    ELSE IF a.s = 0 THEN Zero
    ELSE LET k == IF a.e % 2 = 0 THEN 64 ELSE 65
             n == NShl(a.m, k)
             r == NSqrt(n)
         IN  Round(1, r, (a.e - k) \div 2, NMul(r, r) # n)

\* A decimal literal num/den of the source text: the nearest float.
Lit(num, den) == FDiv(FromInt(num), FromInt(den))

(***************************************************************************)
(* The math module: pi, sin, atan, sqrt, degrees, radians.  sin and atan   *)
(* are evaluated in fixed point with FxBits bits after the point: the      *)
(* argument is reduced with pi to FxBits bits and the power series is      *)
(* summed, which locates the exact value between two adjacent floats.  The *)
(* libm of a build returns one of these two, mostly but not always the     *)
(* nearer one, and which one depends on the build: math_sin and math_atan  *)
(* are the set of both, and every call takes either.                       *)
(***************************************************************************)
FxBits == 143

\* 1 in fixed point.
FxOne == NShl(<<1>>, FxBits)

\* pi in fixed point: pi * 2^143, digits of base 2^13.
PiFx ==
    <<4612, 3346, 3598, 3587, 3153, 1222, 4518, 6704, 1090, 7594, 1159, 3>>

HalfPiFx == NShr(PiFx, 1)

\* atan(j/8) in fixed point, for j = 1 .. 8.
AtanTable ==
    << <<6323, 1915, 6690, 5095, 6040, 5700, 7052, 758, 3414, 5866, 1018>>,
       <<5455, 6117, 7440, 7549, 3901, 5852, 5514, 4123, 6444, 7087, 2006>>,
       <<3937, 2310, 4068, 4462, 3204, 4436, 1139, 6076, 969, 404, 2939>>,
       <<7045, 6662, 936, 5726, 4375, 3580, 6981, 3795, 2755, 1648, 3798>>,
       <<2245, 7454, 6278, 5733, 6896, 5920, 7990, 8025, 3963, 373, 4576>>,
       <<4600, 4731, 4021, 2629, 1017, 1642, 4680, 3952, 3226, 4596, 5271>>,
       <<7869, 4340, 5256, 4624, 3370, 4811, 7399, 793, 5601, 5368, 5888>>,
       <<5249, 4932, 7043, 2944, 4884, 4401, 1129, 5772, 4368, 8042, 6433>> >>

\* math.pi: the float nearest to pi.
math_pi == Round(1, PiFx, -FxBits, TRUE)

\* The floats next to s * v, for an inexact v of P bits or more: the one
\* towards zero and the one away from it.
Neighbours(s, n, e) ==
    LET d  == NBitLen(n) - P
        lo == NShr(n, d)
        hi == NAdd(lo, <<1>>)
    IN  { [s |-> s, m |-> lo, e |-> e + d],
          IF NBitLen(hi) > P THEN [s |-> s, m |-> NShr(hi, 1), e |-> e + d + 1]
          ELSE [s |-> s, m |-> hi, e |-> e + d] }

\* The product of two fixed-point numbers.
FxMul(a, b) == NShr(NMul(a, b), FxBits)

\* The sum t - t*r2/((k+1)(k+2)) + t*r2^2/((k+1)(k+2)(k+3)(k+4)) - ...:
\* the sine of r for t = r, k = 1 and the cosine for t = 1, k = 0, with
\* r2 = r^2.  pos and neg collect the terms added and subtracted so far.
RECURSIVE SinSeries(_, _, _, _, _, _)
SinSeries(t, r2, k, sign, pos, neg) ==
    IF t = <<>> \/ Len(pos) + Len(neg) < 0 THEN NSub(pos, neg)
    ELSE SinSeries(NDivMod(FxMul(t, r2), NFromInt((k + 1) * (k + 2)))[1],
                   r2, k + 2, -sign,
                   IF sign > 0 THEN NAdd(pos, t) ELSE pos,
                   IF sign > 0 THEN neg ELSE NAdd(neg, t))

\* The sum p/k - p*u2/(k+2) + p*u2^2/(k+4) - ...: the arc tangent of u for
\* p = u, k = 1, with u2 = u^2.
RECURSIVE AtanSeries(_, _, _, _, _, _)
AtanSeries(p, u2, k, sign, pos, neg) ==
    IF p = <<>> \/ Len(pos) + Len(neg) < 0 THEN NSub(pos, neg)
    ELSE LET t == NDivMod(p, NFromInt(k))[1]
         IN  AtanSeries(FxMul(p, u2), u2, k + 2, -sign,
                        IF sign > 0 THEN NAdd(pos, t) ELSE pos,
                        IF sign > 0 THEN neg ELSE NAdd(neg, t))

\* The values math.sin(x) may return, x in radians, |x| < 2^10.  Below
\* 2^-27 the sine is x.  Otherwise |x| = k * pi/2 + r with |r| about pi/4 at
\* most, and the sine is that of r, or its cosine, with the sign of the
\* quadrant k.
math_sin(x) ==
    IF x.s = 0 \/ x.e + P <= -27 THEN {x}
    ELSE LET X  == NShl(x.m, x.e + FxBits)
             k  == (2 * NToInt(NShr(X, FxBits - 13)) + 12867) \div (2 * 12867)
             Y  == NMulSmall(HalfPiFx, k)
             c  == NCmp(X, Y)
             r  == IF c >= 0 THEN NSub(X, Y) ELSE NSub(Y, X)
             r2 == FxMul(r, r)
             v  == IF k % 2 = 0 THEN SinSeries(r, r2, 1, 1, <<>>, <<>>)
                   ELSE SinSeries(FxOne, r2, 0, 1, <<>>, <<>>)
             sq == IF k % 4 = 0 THEN c
                   ELSE IF k % 4 = 1 THEN 1
                   ELSE IF k % 4 = 2 THEN -c
                   ELSE -1
         IN  Neighbours(x.s * sq, v, -FxBits)

\* The arc tangent of t in fixed point, for 0 <= t <= 1: with j/8 the
\* eighth nearest to t, atan(t) = atan(j/8) + atan((t - j/8) / (1 + t*j/8)).
AtanFx(t) ==
    LET j   == (NToInt(NShr(t, FxBits - 4)) + 1) \div 2
        t8  == NShl(t, 3)
        j1  == NMulSmall(FxOne, j)
        c   == NCmp(t8, j1)
        num == IF c >= 0 THEN NSub(t8, j1) ELSE NSub(j1, t8)
        den == NAdd(NShl(FxOne, 3), NMulSmall(t, j))
        u   == NDivMod(NShl(num, FxBits), den)[1]
        a   == AtanSeries(u, FxMul(u, u), 1, 1, <<>>, <<>>)
    IN  IF j = 0 THEN AtanSeries(t, FxMul(t, t), 1, 1, <<>>, <<>>)
        ELSE IF c >= 0 THEN NAdd(AtanTable[j], a)
        ELSE NSub(AtanTable[j], a)

\* The values math.atan(q) may return.  Below 2^-27 the arc tangent is q;
\* from 1 on it is pi/2 - atan(1/q), and from 2^66 on the float nearest to
\* pi/2.
math_atan(q) ==
    IF q.s = 0 \/ q.e + P <= -27 THEN {q}
    ELSE IF q.e + P <= 0
    THEN Neighbours(q.s, AtanFx(NShl(q.m, q.e + FxBits)), -FxBits)
    ELSE IF q.e + P > 66 THEN {Round(q.s, HalfPiFx, -FxBits, TRUE)}
    ELSE LET t == NDivMod(NShl(<<1>>, FxBits - q.e), q.m)[1]
         IN  Neighbours(q.s, NSub(HalfPiFx, AtanFx(t)), -FxBits)

math_sqrt(a) == FSqrt(a)

\* math.degrees(x) = x * (180 / pi) and math.radians(x) = x * (pi / 180).
radToDeg == FDiv(FromInt(180), math_pi)

degToRad == FDiv(math_pi, FromInt(180))

math_degrees(x) == FMul(x, radToDeg)

math_radians(x) == FMul(x, degToRad)

(***************************************************************************)
(* Module constants of src/code.py.                                        *)
(***************************************************************************)
PHYSICS_TICK_RATE == 60

TRACK_DIAMETER == Lit(35, 1000)

FRICTION == Lit(1, 100)

PIXEL_LOCATIONS ==
    (0 :> 30) @@ (1 :> 60) @@ (2 :> 90) @@ (3 :> 120) @@ (4 :> 150) @@
    (5 :> 210) @@ (6 :> 240) @@ (7 :> 270) @@ (8 :> 300) @@ (9 :> 330)

Pixels == 0 .. 9

(***************************************************************************)
(* The functions of src/code.py.                                           *)
(***************************************************************************)
\* The values resultant_vector_direction(x, y) may return: one for each
\* value of math.atan.
resultant_vector_direction(x, y) ==
    IF x = Zero
    THEN IF FGt(y, Zero) THEN {FromInt(90)} ELSE {FromInt(270)}
    ELSE { LET deg == math_degrees(atan)
           IN  IF FLt(x, Zero) THEN FAdd(deg, FromInt(180))
               ELSE IF FLt(y, Zero) THEN FAdd(deg, FromInt(360))
               ELSE deg : atan \in math_atan(FDiv(y, x)) }

resultant_vector_magnitude(a, b) ==
    IF a = Zero /\ b = Zero THEN Zero
    ELSE IF a = Zero /\ b # Zero THEN FAbs(b)
    ELSE IF a # Zero /\ b = Zero THEN FAbs(a)
    ELSE math_sqrt(FAdd(FMul(a, a), FMul(b, b)))

\* Mutant: the sine is returned without scaling it by g_magnitude.
acceleration_unscaled(position, g_direction, g_magnitude) ==
    math_sin(math_radians(FSub(g_direction, position)))

\* The values acceleration(position, g_direction, g_magnitude) may return:
\* one for each value of math.sin.
acceleration(position, g_direction, g_magnitude) ==
    LET relative_gravity_angle == FSub(g_direction, position)
    IN  { FMul(sine_of_rel_angle, g_magnitude) :
            sine_of_rel_angle \in math_sin(math_radians(relative_gravity_angle)) }

\* Mutant: the branch for relative angles above 180 is missing.
distance_no_wrap(position, location) == FAbs(FSub(position, location))

\* Lines 137-143 of draw_pixels: the distance of one pixel from the marble.
distance(position, location) ==
    LET relative_angle == FAbs(FSub(position, location))
    IN  IF FGt(relative_angle, FromInt(180))
        THEN FSub(FromInt(360), relative_angle)
        ELSE relative_angle

\* The literals 0.15, 0.85 and 0.05 of lines 146 and 149.
NearFloor == Lit(15, 100)

NearSlope == Lit(85, 100)

FarPeak == Lit(5, 100)

\* Mutant: the near-field term grows with the distance (1 + distance/10).
brightness_multiplier_sign_slip(d) ==
    IF FLt(d, FromInt(10))
    THEN FAdd(NearFloor,
              FMul(NearSlope, FAdd(FromInt(1), FDiv(d, FromInt(10)))))
    ELSE IF FLt(d, FromInt(90))
    THEN FMul(FarPeak, FDiv(FSub(FromInt(90), d), FromInt(90)))
    ELSE Zero

\* Lines 144-151 of draw_pixels.
brightness_multiplier(d) ==
    IF FLt(d, FromInt(10))
    THEN FAdd(NearFloor,
              FMul(NearSlope, FSub(FromInt(1), FDiv(d, FromInt(10)))))
    ELSE IF FLt(d, FromInt(90))
    THEN FMul(FarPeak, FDiv(FSub(FromInt(90), d), FromInt(90)))
    ELSE Zero

\* Line 152: the colour written to one pixel.
pixel_colour(m) == <<FMul(FromInt(255), m), FMul(Zero, m), Zero>>

\* draw_pixels: the contents of cp.pixels after the call.  pixel_locations
\* maps each of the ten pixels to its angle, an int.
draw_pixels(position, pixel_locations) ==
    [pixel \in Pixels |->
        pixel_colour(brightness_multiplier(
            distance(position, FromInt(pixel_locations[pixel]))))]

\* Lines 179-180: while position >= 360: position -= 360.
RECURSIVE WrapDown(_)
WrapDown(p) ==
    IF FGe(p, FromInt(360)) THEN WrapDown(FSub(p, FromInt(360))) ELSE p

\* Lines 181-182: while position < 0: position += 360.
RECURSIVE WrapUp(_)
WrapUp(p) ==
    IF FLt(p, Zero) THEN WrapUp(FAdd(p, FromInt(360))) ELSE p

(***************************************************************************)
(* State.                                                                  *)
(***************************************************************************)
VARIABLES
    pc,                  \* position of the main program
    tick_rate,           \* the value PHYSICS_TICK_RATE is configured to
    brightness,          \* cp.pixels.brightness
    pixels,              \* cp.pixels
    meters_per_degree, position, speed, delta_t, debug_clock,
    x, y, g_direction, g_magnitude, marble_acceleration, delta_v, deg_speed,
    pre_speed,           \* history: speed when the current iteration began
    call,                \* a direct call of one function: its name and arguments
    ret                  \* and what it returned

vars == <<pc, tick_rate, brightness, pixels, meters_per_degree, position,
          speed, delta_t, debug_clock, x, y, g_direction, g_magnitude,
          marble_acceleration, delta_v, deg_speed, pre_speed, call, ret>>

loop_locals == <<x, y, g_direction, g_magnitude, marble_acceleration, delta_v,
                 deg_speed>>

Dark == [pixel \in Pixels |-> <<Zero, Zero, Zero>>]

\* cp.acceleration readings (x axis, y axis), in m/s/s.
AccelSamples ==
    { <<Zero, Zero>>,
      <<PowerOfTwo(-1, -50), Zero>>,
      <<FromInt(1000), Zero>>,
      <<FromInt(-1000), Zero>>,
      <<Lit(-98, 10), Lit(1, 2)>> }

InitCommon ==
    /\ brightness = Zero
    /\ pixels = Dark
    /\ meters_per_degree = Zero
    /\ position = Zero
    /\ speed = Zero
    /\ delta_t = Zero
    /\ debug_clock = 0
    /\ x = Zero /\ y = Zero /\ g_direction = Zero /\ g_magnitude = Zero
    /\ marble_acceleration = Zero /\ delta_v = Zero /\ deg_speed = Zero
    /\ pre_speed = Zero
    /\ call = [fn |-> "none"]
    /\ ret = Zero

\* The program as shipped.
Init == pc = "start" /\ tick_rate = PHYSICS_TICK_RATE /\ InitCommon

(***************************************************************************)
(* The main program, lines 155-200.                                        *)
(***************************************************************************)
\* Lines 156-161.  1 / PHYSICS_TICK_RATE raises ZeroDivisionError for a
\* rate of 0, after lines 156-159 have run.
Startup ==
    /\ pc = "start"
    /\ brightness' = FromInt(1)
    /\ meters_per_degree' = FDiv(FMul(math_pi, TRACK_DIAMETER), FromInt(360))
    /\ position' = Zero
    /\ speed' = Zero
    /\ IF tick_rate = 0
       THEN pc' = "crashed" /\ UNCHANGED delta_t
       ELSE pc' = "friction" /\ delta_t' = FDiv(FromInt(1), FromInt(tick_rate))
    /\ debug_clock' = 0
    /\ UNCHANGED <<tick_rate, pixels, loop_locals, pre_speed, call, ret>>

\* Line 165.
Friction ==
    /\ pc = "friction"
    /\ debug_clock < MaxTicks
    /\ pre_speed' = speed
    /\ speed' = FMul(speed, FSub(FromInt(1), FRICTION))
    /\ pc' = "sample_x"
    /\ UNCHANGED <<tick_rate, brightness, pixels, meters_per_degree, position,
                   delta_t, debug_clock, loop_locals, call, ret>>

\* Line 167: one reading of the sensor.
SampleX ==
    /\ pc = "sample_x"
    /\ \E a \in AccelSamples : x' = FNeg(a[2])
    /\ pc' = "sample_y"
    /\ UNCHANGED <<tick_rate, brightness, pixels, meters_per_degree, position,
                   speed, delta_t, debug_clock, y, g_direction, g_magnitude,
                   marble_acceleration, delta_v, deg_speed, pre_speed, call, ret>>

\* Line 168: another reading, which need not be the one of line 167.
SampleY ==
    /\ pc = "sample_y"
    /\ \E a \in AccelSamples : y' = a[1]
    /\ pc' = "gravity"
    /\ UNCHANGED <<tick_rate, brightness, pixels, meters_per_degree, position,
                   speed, delta_t, debug_clock, x, g_direction, g_magnitude,
                   marble_acceleration, delta_v, deg_speed, pre_speed, call, ret>>

\* Lines 169-170.
Gravity ==
    /\ pc = "gravity"
    /\ g_direction' \in resultant_vector_direction(x, y)
    /\ g_magnitude' = resultant_vector_magnitude(x, y)
    /\ pc' = "accelerate"
    /\ UNCHANGED <<tick_rate, brightness, pixels, meters_per_degree, position,
                   speed, delta_t, debug_clock, x, y, marble_acceleration,
                   delta_v, deg_speed, pre_speed, call, ret>>

\* Line 171.
Accelerate ==
    /\ pc = "accelerate"
    /\ marble_acceleration' \in acceleration(position, g_direction, g_magnitude)
    /\ pc' = "velocity"
    /\ UNCHANGED <<tick_rate, brightness, pixels, meters_per_degree, position,
                   speed, delta_t, debug_clock, x, y, g_direction, g_magnitude,
                   delta_v, deg_speed, pre_speed, call, ret>>

\* Lines 172-173.
Velocity ==
    /\ pc = "velocity"
    /\ delta_v' = FMul(marble_acceleration, delta_t)
    /\ speed' = FAdd(speed, delta_v')
    /\ pc' = "position"
    /\ UNCHANGED <<tick_rate, brightness, pixels, meters_per_degree, position,
                   delta_t, debug_clock, x, y, g_direction, g_magnitude,
                   marble_acceleration, deg_speed, pre_speed, call, ret>>

\* Lines 176-182.
Position ==
    /\ pc = "position"
    /\ deg_speed' = FDiv(speed, meters_per_degree)
    /\ position' = WrapUp(WrapDown(FAdd(position, FMul(deg_speed', delta_t))))
    /\ pc' = "debug"
    /\ UNCHANGED <<tick_rate, brightness, pixels, meters_per_degree, speed,
                   delta_t, debug_clock, x, y, g_direction, g_magnitude,
                   marble_acceleration, delta_v, pre_speed, call, ret>>

\* Lines 184-197: the prints change no state.
Debug ==
    /\ pc = "debug"
    /\ debug_clock' = debug_clock + 1
    /\ pc' = "render"
    /\ UNCHANGED <<tick_rate, brightness, pixels, meters_per_degree, position,
                   speed, delta_t, loop_locals, pre_speed, call, ret>>

\* Mutant: only lit pixels are written, dark ones keep the previous frame.
RenderCarry ==
    /\ pc = "render"
    /\ pixels' = [pixel \in Pixels |->
                    IF draw_pixels(position, PIXEL_LOCATIONS)[pixel][1] = Zero
                    THEN pixels[pixel]
                    ELSE draw_pixels(position, PIXEL_LOCATIONS)[pixel]]
    /\ pc' = "sleep"
    /\ UNCHANGED <<tick_rate, brightness, meters_per_degree, position, speed,
                   delta_t, debug_clock, loop_locals, pre_speed, call, ret>>

\* Line 199.
Render ==
    /\ pc = "render"
    /\ pixels' = draw_pixels(position, PIXEL_LOCATIONS)
    /\ pc' = "sleep"
    /\ UNCHANGED <<tick_rate, brightness, meters_per_degree, position, speed,
                   delta_t, debug_clock, loop_locals, pre_speed, call, ret>>

\* Mutant: a negative duration is slept like any other.
SleepUnchecked ==
    /\ pc = "sleep"
    /\ pc' = "friction"
    /\ UNCHANGED <<tick_rate, brightness, pixels, meters_per_degree, position,
                   speed, delta_t, debug_clock, loop_locals, pre_speed, call, ret>>

\* Line 200.  time.sleep raises ValueError for a negative duration.
Sleep ==
    /\ pc = "sleep"
    /\ pc' = IF FLt(delta_t, Zero) THEN "crashed" ELSE "friction"
    /\ UNCHANGED <<tick_rate, brightness, pixels, meters_per_degree, position,
                   speed, delta_t, debug_clock, loop_locals, pre_speed, call, ret>>

Next ==
    \/ Startup
    \/ Friction
    \/ SampleX
    \/ SampleY
    \/ Gravity
    \/ Accelerate
    \/ Velocity
    \/ Position
    \/ Debug
    \/ Render
    \/ Sleep

Spec == Init /\ [][Next]_vars
(***************************************************************************)
(* The program with PHYSICS_TICK_RATE set to another value.                *)
(***************************************************************************)
TickRates == {PHYSICS_TICK_RATE, 0, -PHYSICS_TICK_RATE}

InitCfg == pc = "start" /\ tick_rate \in TickRates /\ InitCommon

SpecCfg == InitCfg /\ [][Next]_vars

(***************************************************************************)
(* Direct calls of the functions, one call per behaviour.                  *)
(***************************************************************************)
\* Components of a vector: zero, ordinary, very small and very large.
VecInputs ==
    { Zero, FromInt(1), FromInt(-1), FromInt(3), FromInt(-3), FromInt(4),
      FromInt(-4), Lit(98, 10), Lit(-98, 10), PowerOfTwo(1, -60),
      PowerOfTwo(-1, -60), PowerOfTwo(1, 40), PowerOfTwo(-1, 40) }

\* Whole degrees for the position and the direction of gravity.
AccDegrees == {0, 30, 45, 90, 135, 180, 270, 300, 315, 360, 450}

AccMagnitudes == {Zero, FromInt(1), Lit(98, 10)}

\* Marble positions in half degrees, inside and outside [0, 360).
DrawHalfDegrees ==
    (0 .. 719) \cup {h \in -800 .. 1600 : h % 10 = 0}

Uniform(l) == [pixel \in Pixels |-> l]

Shifted(k) == [pixel \in Pixels |-> PIXEL_LOCATIONS[pixel] + k]

DrawLayouts == {PIXEL_LOCATIONS, Uniform(5), Shifted(360), Shifted(-360)}

HalfDeg(h) == FDiv(FromInt(h), FromInt(2))

InitCalls == pc = "call" /\ tick_rate = PHYSICS_TICK_RATE /\ InitCommon

CallDirection ==
    /\ pc = "call"
    /\ \E a \in VecInputs, b \in VecInputs :
          /\ call' = [fn |-> "resultant_vector_direction", x |-> a, y |-> b]
          /\ ret' \in resultant_vector_direction(a, b)
    /\ pc' = "returned"
    /\ UNCHANGED <<tick_rate, brightness, pixels, meters_per_degree, position,
                   speed, delta_t, debug_clock, loop_locals, pre_speed>>

CallMagnitude ==
    /\ pc = "call"
    /\ \E a \in VecInputs, b \in VecInputs :
          /\ call' = [fn |-> "resultant_vector_magnitude", a |-> a, b |-> b]
          /\ ret' = resultant_vector_magnitude(a, b)
    /\ pc' = "returned"
    /\ UNCHANGED <<tick_rate, brightness, pixels, meters_per_degree, position,
                   speed, delta_t, debug_clock, loop_locals, pre_speed>>

CallAcceleration ==
    /\ pc = "call"
    /\ \E p \in AccDegrees, d \in AccDegrees, g \in AccMagnitudes :
          /\ call' = [fn |-> "acceleration", position |-> p, g_direction |-> d,
                      g_magnitude |-> g]
          /\ ret' \in acceleration(FromInt(p), FromInt(d), g)
    /\ pc' = "returned"
    /\ UNCHANGED <<tick_rate, brightness, pixels, meters_per_degree, position,
                   speed, delta_t, debug_clock, loop_locals, pre_speed>>

CallDrawPixels ==
    /\ pc = "call"
    /\ \E h \in DrawHalfDegrees, l \in DrawLayouts :
          /\ call' = [fn |-> "draw_pixels", half_degrees |-> h,
                      pixel_locations |-> l]
          /\ pixels' = draw_pixels(HalfDeg(h), l)
    /\ pc' = "returned"
    /\ UNCHANGED <<tick_rate, brightness, meters_per_degree, position, speed,
                   delta_t, debug_clock, loop_locals, pre_speed, ret>>

NextCalls ==
    \/ CallDirection
    \/ CallMagnitude
    \/ CallAcceleration
    \/ CallDrawPixels

SpecCalls == InitCalls /\ [][NextCalls]_vars

(***************************************************************************)
(* Properties.                                                             *)
(***************************************************************************)
InUnit(f, lo, hi) == FGe(f, FromInt(lo)) /\ FLe(f, FromInt(hi))

\* The iteration's speed update (lines 172-173) is over.
AfterVelocity ==
    \/ pc \in {"position", "debug", "render", "sleep"}
    \/ pc \in {"friction", "crashed"} /\ debug_clock >= 1

\* C1: after every iteration of the loop the marble position is at least 0
\* and strictly below 360.
C1_PositionNormalized == FGe(position, Zero) /\ FLt(position, FromInt(360))

\* C2 as stated: draw_pixels gives every element the brightness it gives for
\* the position and the layout entry normalized into [0, 360).
C2_RendererNormalizes ==
    call.fn = "draw_pixels" =>
        pixels = draw_pixels(HalfDeg(call.half_degrees % 720),
                             [pixel \in Pixels |-> call.pixel_locations[pixel] % 360])

\* C2 amended: draw_pixels takes the raw difference.  For a position and an
\* entry in whole or half degrees the element gets the brightness of the
\* normalized inputs exactly when |position - entry| <= 360.
C2_SameWithinOneTurn ==
    call.fn = "draw_pixels" =>
        \A pixel \in Pixels :
            (Abs(call.half_degrees - 2 * call.pixel_locations[pixel]) <= 720)
            <=> (pixels[pixel] =
                    draw_pixels(HalfDeg(call.half_degrees % 720),
                                [p \in Pixels |-> call.pixel_locations[p] % 360])[pixel])

\* An out-of-range position within one turn of a lit element.
C2_Witness ==
    /\ call.fn = "draw_pixels"
    /\ call.half_degrees = 740
    /\ call.pixel_locations = PIXEL_LOCATIONS
    /\ pixels[0][1] # Zero

\* C3: resultant_vector_direction returns an angle in [0, 360) lying in the
\* quadrant of (x, y), the axes included, and 270 for the zero vector.
C3_DirectionInQuadrant ==
    call.fn = "resultant_vector_direction" =>
        LET sx == call.x.s
            sy == call.y.s
            between(lo, hi) == FGt(ret, FromInt(lo)) /\ FLt(ret, FromInt(hi))
        IN  /\ FGe(ret, Zero) /\ FLt(ret, FromInt(360))
            /\ (sx > 0 /\ sy = 0) => ret = Zero
            /\ (sx > 0 /\ sy > 0) => between(0, 90)
            /\ (sx = 0 /\ sy > 0) => ret = FromInt(90)
            /\ (sx < 0 /\ sy > 0) => between(90, 180)
            /\ (sx < 0 /\ sy = 0) => ret = FromInt(180)
            /\ (sx < 0 /\ sy < 0) => between(180, 270)
            /\ (sx = 0 /\ sy <= 0) => ret = FromInt(270)
            /\ (sx > 0 /\ sy < 0) => between(270, 360)

\* C4: every pixel the loop has written has red in [0, 255] and green and
\* blue 0, and the brightness multiplier of every element is in [0, 1].
C4_PixelChannels ==
    \A pixel \in Pixels :
        /\ InUnit(pixels[pixel][1], 0, 255)
        /\ pixels[pixel][2] = Zero
        /\ pixels[pixel][3] = Zero
        /\ InUnit(brightness_multiplier(
                      distance(position, FromInt(PIXEL_LOCATIONS[pixel]))), 0, 1)

\* A frame with an element less than 10 degrees from the marble, not on it.
C4_Witness ==
    /\ pc = "sleep"
    /\ \E pixel \in Pixels :
          LET d == distance(position, FromInt(PIXEL_LOCATIONS[pixel]))
          IN  d # Zero /\ FLt(d, FromInt(10)) /\ pixels[pixel][1] # Zero

\* C5: in an iteration whose sensor sample is x = 0, y = 0 the speed after
\* the speed update is exactly pre_speed * (1 - FRICTION).
C5_ZeroGravityFrictionOnly ==
    (AfterVelocity /\ x = Zero /\ y = Zero) =>
        /\ speed = FMul(pre_speed, FSub(FromInt(1), FRICTION))
        /\ delta_v = Zero

\* A moving marble under zero gravity.
C5_Witness ==
    /\ pc = "sleep"
    /\ x = Zero /\ y = Zero
    /\ pre_speed # Zero
    /\ g_direction = FromInt(270)

\* C6 as stated: for an element at 5 degrees, position 350 renders as
\* position 10 does.
C6_Seam350And10 ==
    (call.fn = "draw_pixels" /\ call.half_degrees = 700
        /\ call.pixel_locations = Uniform(5)) =>
        pixels = draw_pixels(FromInt(10), Uniform(5))

\* C6 amended: for an element at 5 degrees, position 350 renders as position
\* 20 does, the position 15 degrees on the other side of the element.
C6_Seam350And20 ==
    (call.fn = "draw_pixels" /\ call.half_degrees = 700
        /\ call.pixel_locations = Uniform(5)) =>
        pixels = draw_pixels(FromInt(20), Uniform(5))

\* The element at 5 degrees, lit from position 350.
C6_Witness ==
    /\ call.fn = "draw_pixels"
    /\ call.half_degrees = 700
    /\ call.pixel_locations = Uniform(5)
    /\ pixels[0][1] # Zero

\* C7: for a position and an element location in [0, 360) the distance of
\* draw_pixels is min(|p - l|, 360 - |p - l|), lies in [0, 180], and is the
\* same for the position mirrored at the element.
C7_ShortestDistance ==
    (call.fn = "draw_pixels" /\ call.half_degrees \in 0 .. 719) =>
        \A pixel \in Pixels :
            LET h   == call.half_degrees
                l   == call.pixel_locations[pixel]
                gap == Abs(h - 2 * l)
                m   == IF gap <= 720 - gap THEN gap ELSE 720 - gap
                d   == distance(HalfDeg(h), FromInt(l))
            IN  l \in 0 .. 359 =>
                    /\ d = HalfDeg(m)
                    /\ InUnit(d, 0, 180)
                    /\ distance(HalfDeg((4 * l - h) % 720), FromInt(l)) = d

\* Position 350 and the element at 30: 320 degrees apart, 40 the short way.
C7_Witness ==
    /\ call.fn = "draw_pixels"
    /\ call.half_degrees = 700
    /\ call.pixel_locations = PIXEL_LOCATIONS
    /\ distance(HalfDeg(700), FromInt(PIXEL_LOCATIONS[0])) = FromInt(40)

\* C8: acceleration is 0 when g_direction - position is 0 or 180 modulo 360,
\* g_magnitude at 90, -g_magnitude at 270, and depends on the difference
\* only through its value modulo 360.
C8_QuarterTurns ==
    call.fn = "acceleration" =>
        LET rel == (call.g_direction - call.position) % 360
            g   == call.g_magnitude
        IN  /\ rel \in {0, 180} => ret = Zero
            /\ rel = 90 => ret = g
            /\ rel = 270 => ret = FNeg(g)
            /\ ret \in acceleration(Zero, FromInt(rel), g)

\* C9 as stated: with a non-positive tick rate no iteration changes the
\* position or the speed.
C9_NonPositiveDtIsNoOp ==
    tick_rate <= 0 => (position = Zero /\ speed = Zero)

\* C9 amended: a tick rate of 0 stops the program at 1 / PHYSICS_TICK_RATE,
\* before any iteration; a negative rate gives a negative delta_t, which the
\* first iteration integrates with, and the program stops at that
\* iteration's time.sleep(delta_t).
C9_ZeroRateStopsNegativeRateRuns ==
    /\ tick_rate = 0 =>
          /\ pc \in {"start", "crashed"}
          /\ debug_clock = 0 /\ position = Zero /\ speed = Zero
          /\ pixels = Dark
    /\ (tick_rate < 0 /\ pc # "start") =>
          /\ FLt(delta_t, Zero)
          /\ debug_clock <= 1
          /\ pc = "crashed" =>
                /\ debug_clock = 1
                /\ pixels = draw_pixels(position, PIXEL_LOCATIONS)

\* A negative rate, one iteration done: the marble has moved.
C9_Witness ==
    /\ tick_rate < 0
    /\ pc = "crashed"
    /\ speed # Zero
    /\ position # Zero

\* C10: the steps of an iteration follow each other in the order friction,
\* sample, gravity, acceleration, speed, position, render, sleep, and the
\* frame written is the one of the position the same iteration produced.
C10_TickOrder ==
    [][ /\ pc = "friction" => pc' = "sample_x"
        /\ pc = "sample_x" => pc' = "sample_y"
        /\ pc = "sample_y" => pc' = "gravity"
        /\ pc = "gravity" => pc' = "accelerate"
        /\ pc = "accelerate" => pc' = "velocity"
        /\ pc = "velocity" => pc' = "position"
        /\ pc = "position" => pc' = "debug"
        /\ pc = "debug" => pc' = "render"
        /\ pc = "render" => pc' = "sleep"
        /\ pc = "sleep" => pc' = "friction"
        /\ pc' = "sleep" =>
              /\ position' = position
              /\ pixels' = draw_pixels(position', PIXEL_LOCATIONS)
      ]_vars

\* A second frame, different from the first one written.
C10_Witness ==
    /\ pc = "sleep"
    /\ debug_clock = 2
    /\ pixels # Dark
    /\ pixels = draw_pixels(position, PIXEL_LOCATIONS)
    /\ \E pixel \in Pixels : pixels[pixel][1] = Zero

====
